---- MODULE Spec2Model ----
(***************************************************************************)
(* Model of the Pancho dashboard shell: SettingsProvider (settings fetch), *)
(* AppLayout (sidebar expanded state and its persistence), Sidebar (hover  *)
(* and submenu state) and PageContent (route resolution, allow-list check  *)
(* and composition of the iframe src).                                     *)
(*                                                                         *)
(* JavaScript strings are TLA+ strings; a value that may be null or        *)
(* undefined is a tuple of length 0 (absent) or 1 (present).               *)
(***************************************************************************)
EXTENDS Integers, Sequences, FiniteSets, TLC

None == << >>
Some(v) == << v >>

(***************************************************************************)
(* String primitives of the JavaScript runtime used by the code.          *)
(***************************************************************************)
CharAt(s, i) == SubSeq(s, i, i)

\* String.prototype.startsWith
StartsWith(s, p) == Len(p) <= Len(s) /\ SubSeq(s, 1, Len(p)) = p

\* String.prototype.endsWith
EndsWith(s, p) == Len(p) <= Len(s) /\ SubSeq(s, Len(s) - Len(p) + 1, Len(s)) = p

\* String.prototype.substring(n), n counted from 0
Substring(s, n) == SubSeq(s, n + 1, Len(s))

\* 1-based position of the first character of s that is in the set C, 0 if none
RECURSIVE ScanFrom(_, _, _)
ScanFrom(s, C, i) ==
    IF i > Len(s) THEN 0 ELSE IF CharAt(s, i) \in C THEN i ELSE ScanFrom(s, C, i + 1)

FirstIdx(s, C) == ScanFrom(s, C, 1)

\* s up to (not including) the first character in C; all of s if there is none
BeforeIdx(s, i) == IF i = 0 THEN s ELSE SubSeq(s, 1, i - 1)
Before(s, C) == BeforeIdx(s, FirstIdx(s, C))

\* what follows the first character in C; absent if there is none
AfterIdx(s, i) == IF i = 0 THEN None ELSE Some(Substring(s, i))
After(s, C) == AfterIdx(s, FirstIdx(s, C))

\* String.prototype.split on a one-character separator
RECURSIVE Split(_, _)
RECURSIVE SplitAt(_, _, _)
SplitAt(s, sep, i) ==
    IF i = 0 THEN << s >> ELSE << SubSeq(s, 1, i - 1) >> \o Split(Substring(s, i), sep)

Split(s, sep) == SplitAt(s, sep, FirstIdx(s, {sep}))

\* Array.prototype.join
RECURSIVE Join(_, _)
Join(parts, sep) ==
    IF Len(parts) = 0 THEN ""
    ELSE IF Len(parts) = 1 THEN parts[1]
    ELSE parts[1] \o sep \o Join(Tail(parts), sep)

RECURSIVE StripSlashes(_)
StripSlashes(s) == IF StartsWith(s, "/") THEN StripSlashes(Substring(s, 1)) ELSE s

(***************************************************************************)
(* application/x-www-form-urlencoded, as used by URLSearchParams.          *)
(***************************************************************************)
\* the characters of the model's alphabet that the serializer escapes
PercentCodes ==
    << <<"%", "%25">>, <<"/", "%2F">>, <<":", "%3A">>, <<"=", "%3D">>,
       <<"&", "%26">>, <<"?", "%3F">>, <<"#", "%23">>, <<"+", "%2B">> >>

EncodeChar(c) ==
    IF c = " " THEN "+"
    ELSE IF \E k \in 1..Len(PercentCodes) : PercentCodes[k][1] = c
         THEN (PercentCodes[CHOOSE k \in 1..Len(PercentCodes) : PercentCodes[k][1] = c])[2]
         ELSE c

RECURSIVE FormEncode(_)
FormEncode(s) == IF s = "" THEN "" ELSE EncodeChar(Head(s)) \o FormEncode(Tail(s))

RECURSIVE FormDecode(_)
FormDecode(s) ==
    IF s = "" THEN ""
    ELSE IF Head(s) = "+" THEN " " \o FormDecode(Tail(s))
    ELSE IF /\ Len(s) >= 3
            /\ \E k \in 1..Len(PercentCodes) : PercentCodes[k][2] = SubSeq(s, 1, 3)
         THEN (PercentCodes[CHOOSE k \in 1..Len(PercentCodes) :
                                PercentCodes[k][2] = SubSeq(s, 1, 3)])[1]
              \o FormDecode(Substring(s, 3))
    ELSE Head(s) \o FormDecode(Tail(s))

\* one "name=value" piece of a query string -> <<name, value>>
ParsePair(piece) ==
    LET eq == FirstIdx(piece, {"="})
    IN  IF eq = 0 THEN << FormDecode(piece), "" >>
        ELSE << FormDecode(SubSeq(piece, 1, eq - 1)), FormDecode(Substring(piece, eq)) >>

RECURSIVE ParsePieces(_)
ParsePieces(pieces) ==
    IF Len(pieces) = 0 THEN << >>
    ELSE IF Head(pieces) = "" THEN ParsePieces(Tail(pieces))
    ELSE << ParsePair(Head(pieces)) >> \o ParsePieces(Tail(pieces))

\* new URLSearchParams(init): the list of <<name, value>> pairs
URLSearchParams(init) ==
    LET q == IF StartsWith(init, "?") THEN Substring(init, 1) ELSE init
    IN  ParsePieces(Split(q, "&"))

RECURSIVE SerializePairs(_)
SerializePairs(list) ==
    IF Len(list) = 0 THEN << >>
    ELSE << FormEncode(list[1][1]) \o "=" \o FormEncode(list[1][2]) >>
         \o SerializePairs(Tail(list))

\* URLSearchParams.prototype.toString
SearchParamsToString(list) == Join(SerializePairs(list), "&")

(***************************************************************************)
(* new URL(input, base) for an https origin as base.  Covered input forms: *)
(* "https://host/path?query#fragment", "https:" followed by a relative     *)
(* reference, "//host/...", "/path", "./path", "path", "?query",           *)
(* "#fragment".  Hosts carry no userinfo or port.                          *)
(***************************************************************************)
HttpsScheme == "https:"

OriginHost(origin) == Substring(origin, Len(HttpsScheme \o "//"))

\* dot-segment removal over the segments of a path
RECURSIVE RemoveDots(_, _)
RemoveDots(segs, out) ==
    IF Len(segs) = 0 THEN out
    ELSE LET s == Head(segs)
             last == Len(segs) = 1
         IN  IF s = "."
             THEN RemoveDots(Tail(segs), IF last THEN Append(out, "") ELSE out)
             ELSE IF s = ".."
             THEN LET popped == IF Len(out) = 0 THEN out ELSE SubSeq(out, 1, Len(out) - 1)
                  IN  RemoveDots(Tail(segs), IF last THEN Append(popped, "") ELSE popped)
             ELSE RemoveDots(Tail(segs), Append(out, s))

\* path is "" or begins with "/"
NormalizePath(path) ==
    IF path = "" THEN "/"
    ELSE "/" \o Join(RemoveDots(Split(Substring(path, 1), "/"), << >>), "/")

URLParse(input, base) ==
    LET hasScheme  == StartsWith(input, HttpsScheme)
        rest       == IF hasScheme THEN Substring(input, Len(HttpsScheme)) ELSE input
        fragment   == After(rest, {"#"})
        noFrag     == Before(rest, {"#"})
        query      == After(noFrag, {"?"})
        hier       == Before(noFrag, {"?"})
        authority  == StartsWith(hier, "//")
        afterSl    == StripSlashes(hier)
        host       == IF authority THEN Before(afterSl, {"/"}) ELSE OriginHost(base)
        rawPath    == IF authority THEN Substring(afterSl, Len(host))
                      ELSE IF StartsWith(hier, "/") THEN hier
                      ELSE "/" \o hier
    IN  [ ok       |-> host # "",
          hostname |-> host,
          pathname |-> NormalizePath(rawPath),
          query    |-> query,
          fragment |-> fragment ]

\* URL.prototype.toString
URLToString(u) ==
    HttpsScheme \o "//" \o u.hostname \o u.pathname
      \o (IF u.query = None THEN "" ELSE "?" \o u.query[1])
      \o (IF u.fragment = None THEN "" ELSE "#" \o u.fragment[1])

\* url.searchParams: the pairs of the URL's query
SearchParamsOf(u) == IF u.query = None THEN << >> ELSE URLSearchParams(u.query[1])

\* url.searchParams.set(key, value) in place of append: an existing key is overwritten
SearchParamsSet(u, key, value) ==
    LET list == SearchParamsOf(u)
        has  == \E i \in 1..Len(list) : list[i][1] = key
        kept == SelectSeq(list, LAMBDA e : e[1] # key)
    IN  [u EXCEPT !.query = Some(SearchParamsToString(
                     IF has THEN << <<key, value>> >> \o kept
                     ELSE Append(list, <<key, value>>)))]

\* url.searchParams.append(key, value): the list grows and the query is
\* rewritten from the list
SearchParamsAppend(u, key, value) ==
    [u EXCEPT !.query = Some(SearchParamsToString(Append(SearchParamsOf(u), <<key, value>>)))]

\* the fragment is set only when the URL has none yet
SetHashIfNone(u, value) ==
    IF u.fragment # None THEN u
    ELSE [u EXCEPT !.fragment =
             Some(IF StartsWith(value, "#") THEN Substring(value, 1) ELSE value)]

\* url.hash = value
SetHash(u, value) ==
    IF value = "" THEN [u EXCEPT !.fragment = None]
    ELSE [u EXCEPT !.fragment =
             Some(IF StartsWith(value, "#") THEN Substring(value, 1) ELSE value)]

(***************************************************************************)
(* JSON of an array of plain strings, as stored under "openSubmenus".      *)
(***************************************************************************)
RECURSIVE Quoted(_)
Quoted(arr) == IF Len(arr) = 0 THEN << >> ELSE << "\"" \o Head(arr) \o "\"" >> \o Quoted(Tail(arr))

JSONStringify(arr) == "[" \o Join(Quoted(arr), ",") \o "]"

RECURSIVE Unquoted(_)
Unquoted(parts) ==
    IF Len(parts) = 0 THEN << >>
    ELSE << SubSeq(Head(parts), 2, Len(Head(parts)) - 1) >> \o Unquoted(Tail(parts))

JSONParse(text) ==
    LET inner == SubSeq(text, 2, Len(text) - 1)
    IN  IF inner = "" THEN << >> ELSE Unquoted(Split(inner, ","))

(***************************************************************************)
(* A JavaScript Set of strings: its elements in insertion order.           *)
(***************************************************************************)
SetHas(set, v) == \E i \in 1..Len(set) : set[i] = v

SetAdd(set, v) == IF SetHas(set, v) THEN set ELSE Append(set, v)

SetDelete(set, v) == SelectSeq(set, LAMBDA e : e # v)

RECURSIVE NewSet(_)
NewSet(arr) ==
    IF Len(arr) = 0 THEN << >>
    ELSE SetAdd(NewSet(SubSeq(arr, 1, Len(arr) - 1)), arr[Len(arr)])

(***************************************************************************)
(* Route resolution (App.tsx).                                             *)
(***************************************************************************)
Header == [type |-> "header"]
Link(href, iframeUrl) == [type |-> "link", href |-> href, iframeUrl |-> iframeUrl]
Submenu(path, children) == [type |-> "submenu", path |-> path, children |-> children]

\* checkItem with >= for >: on equal length the last link wins
checkItemLast(bestMatch, item, href) ==
    IF StartsWith(href, item.href)
    THEN LET nextUndefined == Len(item.href) + 1 > Len(href)
             nextChar      == CharAt(href, Len(item.href) + 1)
         IN  IF nextUndefined \/ nextChar = "#"
             THEN IF bestMatch = None \/ Len(item.href) >= Len(bestMatch[1].navLink.href)
                  THEN Some([navLink |-> item, iframeHash |-> Substring(href, Len(item.href))])
                  ELSE bestMatch
             ELSE bestMatch
    ELSE bestMatch

\* the body of checkItem: the best match after looking at item
checkItem(bestMatch, item, href) ==
    IF StartsWith(href, item.href)
    THEN LET nextUndefined == Len(item.href) + 1 > Len(href)
             nextChar      == CharAt(href, Len(item.href) + 1)
         IN  IF nextUndefined \/ nextChar = "#"
             THEN IF bestMatch = None \/ Len(item.href) > Len(bestMatch[1].navLink.href)
                  THEN Some([navLink |-> item, iframeHash |-> Substring(href, Len(item.href))])
                  ELSE bestMatch
             ELSE bestMatch
    ELSE bestMatch

RECURSIVE CheckChildren(_, _, _)
CheckChildren(children, href, bestMatch) ==
    IF Len(children) = 0 THEN bestMatch
    ELSE CheckChildren(Tail(children), href, checkItem(bestMatch, Head(children), href))

RECURSIVE CheckItems(_, _, _)
CheckItems(navItems, href, bestMatch) ==
    IF Len(navItems) = 0 THEN bestMatch
    ELSE LET item == Head(navItems)
             next == IF item.type = "link" THEN checkItem(bestMatch, item, href)
                     ELSE IF item.type = "submenu" THEN CheckChildren(item.children, href, bestMatch)
                     ELSE bestMatch
         IN  CheckItems(Tail(navItems), href, next)

findNavItemByHref(navItems, href) == CheckItems(navItems, href, None)

\* findDefaultHref without its submenu branch
RECURSIVE findDefaultHrefTopOnly(_)
findDefaultHrefTopOnly(navItems) ==
    IF Len(navItems) = 0 THEN "#/"
    ELSE IF Head(navItems).type = "link" THEN Head(navItems).href
    ELSE findDefaultHrefTopOnly(Tail(navItems))

RECURSIVE findDefaultHref(_)
findDefaultHref(navItems) ==
    IF Len(navItems) = 0 THEN "#/"
    ELSE LET item == Head(navItems)
         IN  IF item.type = "link" THEN item.href
             ELSE IF item.type = "submenu" /\ Len(item.children) > 0 THEN item.children[1].href
             ELSE findDefaultHref(Tail(navItems))

\* PageContent: match for the current hash
Match(navItems, h) == findNavItemByHref(navItems, IF h = "#/" THEN findDefaultHref(navItems) ELSE h)

(***************************************************************************)
(* PageContent: the effect that validates and composes the iframe src.     *)
(***************************************************************************)
\* window.location.origin of the dashboard
WindowOrigin == "https://app.io"

InvalidUrlError == "The configured iframe URL is invalid."
NotAllowedError == "For security reasons, only content from configured domains can be displayed."

\* settings?.security?.allowedIframeDomains ?? []
AllowedDomains(st) == IF st.security = None THEN << >> ELSE st.security[1]

isAllowed(hostname, allowedDomains) ==
    \E i \in 1..Len(allowedDomains) :
        hostname = allowedDomains[i] \/ EndsWith(hostname, "." \o allowedDomains[i])

isRelative(iframeUrl) == StartsWith(iframeUrl, "/") \/ StartsWith(iframeUrl, "./")

\* mainPageParams.forEach((value, key) => finalUrl.searchParams.append(key, value))
RECURSIVE AppendParams(_, _)
AppendParams(u, params) ==
    IF Len(params) = 0 THEN u
    ELSE AppendParams(SearchParamsAppend(u, params[1][1], params[1][2]), Tail(params))

\* the URL composed on the success path
ComposeUrl(finalUrl, iframeHash, srch) ==
    URLToString(IF iframeHash # ""
                THEN SetHash(AppendParams(finalUrl, URLSearchParams(srch)), iframeHash)
                ELSE AppendParams(finalUrl, URLSearchParams(srch)))

\* the effect without setIsIframeLoading(false) on its two error paths
EffectOnUrlStillLoading(finalUrl, iframeUrl, iframeHash, st, srch) ==
    IF ~finalUrl.ok
    THEN [finalIframeUrl |-> None, securityError |-> Some(InvalidUrlError),
          isIframeLoading |-> TRUE]
    ELSE IF ~isRelative(iframeUrl) /\ ~isAllowed(finalUrl.hostname, AllowedDomains(st))
    THEN [finalIframeUrl |-> None, securityError |-> Some(NotAllowedError),
          isIframeLoading |-> TRUE]
    ELSE [finalIframeUrl |-> Some(ComposeUrl(finalUrl, iframeHash, srch)),
          securityError |-> None, isIframeLoading |-> TRUE]

\* the state the effect leaves: finalIframeUrl, securityError, isIframeLoading
\* the effect once new URL(iframeUrl, window.location.origin) has been tried
EffectOnUrl(finalUrl, iframeUrl, iframeHash, st, srch) ==
    IF ~finalUrl.ok
    THEN [finalIframeUrl |-> None, securityError |-> Some(InvalidUrlError),
          isIframeLoading |-> FALSE]
    ELSE IF ~isRelative(iframeUrl) /\ ~isAllowed(finalUrl.hostname, AllowedDomains(st))
    THEN [finalIframeUrl |-> None, securityError |-> Some(NotAllowedError),
          isIframeLoading |-> FALSE]
    ELSE [finalIframeUrl |-> Some(ComposeUrl(finalUrl, iframeHash, srch)),
          securityError |-> None, isIframeLoading |-> TRUE]

PageEffect(iframeUrl, iframeHash, st, srch) ==
    IF iframeUrl = ""
    THEN [finalIframeUrl |-> None, securityError |-> None, isIframeLoading |-> FALSE]
    ELSE EffectOnUrl(URLParse(iframeUrl, WindowOrigin), iframeUrl, iframeHash, st, srch)

\* activeItem?.iframeUrl and match?.iframeHash ?? '' for a hash; a link
\* without iframeUrl and one with an empty iframeUrl are both ""
IframeUrlOf(m) == IF m = None THEN "" ELSE m[1].navLink.iframeUrl
IframeHashOf(m) == IF m = None THEN "" ELSE m[1].iframeHash

\* the effect's dependency list (the allow-list never changes once loaded)
EffectDeps(m) == << IframeUrlOf(m), IframeHashOf(m) >>

(***************************************************************************)
(* Inputs: the settings.json documents served, the address-bar query       *)
(* strings and the routes the user visits.                                 *)
(***************************************************************************)
MainNav ==
    << Header,
       Link("#/home", "https://ok.io/a?x=1#top"),
       Submenu("svc", << Link("#/svc", "/local?x=1"),
                         Link("#/svc#adv", "https://sub.ok.io/") >>),
       Link("#/evil", "https://evilok.io/"),
       Link("#/proto", "//bad.io/x"),
       Link("#/rel", "page"),
       Link("#/bad", "https://"),
       Link("#/none", ""),
       Submenu("more", << Link("#/dot", "./rel") >>) >>

SettingsFile(allowed, defaultState, navItems) ==
    [ theme    |-> [primary |-> "blue", border |-> "gray"],
      security |-> allowed,
      sidebar  |-> [ defaultState |-> defaultState,
                     logoUrl      |-> "/logo.png",
                     profile      |-> [href |-> "#/none"],
                     navItems     |-> navItems ] ]

AllowLists == { None, Some(<< >>), Some(<< "ok.io" >>) }

SettingsFiles ==
    { SettingsFile(a, d, MainNav) : a \in AllowLists, d \in {"expanded", "collapsed"} }

Searches == { "", "?x=2&primary=red", "?x=2&x=a/b&logoUrl=/l.svg" }

Routes ==
    { "#/", "#/home", "#/home#s", "#/home#", "#/homepage", "#/svc", "#/svc#adv",
      "#/svc#adv#z", "#/svc#x", "#/evil", "#/proto", "#/rel", "#/bad", "#/none", "#/dot#s" }

(***************************************************************************)
(* Inputs for route resolution: every nav tree of up to MaxNavItems items  *)
(* (headers, links, submenus of up to MaxChildren links) over hrefs that   *)
(* are equal, prefixes of one another, or extended by '#'.                 *)
(***************************************************************************)
MaxNavItems == 2
MaxChildren == 2

SeqsUpTo(S, n) == UNION { [1..k -> S] : k \in 0..n }

RouteTopLinks   == { Link("#/foo", "/a"), Link("#/foo#bar", "/b"), Link("#/foobarbaz", "/c") }
RouteChildLinks == { Link("#/foo", "/d"), Link("#/foo#bar", "/e") }

RouteItems ==
    {Header} \cup RouteTopLinks
      \cup { Submenu("sub", c) : c \in SeqsUpTo(RouteChildLinks, MaxChildren) }

RouteFiles ==
    { SettingsFile(Some(<< >>), "collapsed", nav) : nav \in SeqsUpTo(RouteItems, MaxNavItems) }

RouteRoutes ==
    { "#/", "#/foo", "#/foo#bar", "#/foo#bar#x", "#/foo#", "#/foobar", "#/foobarbaz#x" }

\* the paths of the submenus of a nav tree
SubmenuPaths(navItems) ==
    { navItems[i].path : i \in {j \in 1..Len(navItems) : navItems[j].type = "submenu"} }

(***************************************************************************)
(* State.                                                                   *)
(***************************************************************************)
VARIABLES
    file,               \* the settings.json the server answers with
    search,             \* window.location.search
    hash,               \* the hash reported by useLocation
    match,              \* PageContent: match of the last render (None = undefined)
    storage,            \* localStorage: sidebarState, openSubmenus
    pointerOver,        \* the pointer is over the desktop <aside>
    settings,           \* SettingsProvider.settings (None = null)
    loading,            \* SettingsProvider.loading
    isMobile,           \* AppLayout: useMediaQuery('(max-width: 767px)')
    isMobileMenuOpen,   \* AppLayout
    isExpanded,         \* AppLayout
    rootStyle,          \* CSS variables set on document.documentElement
    isHovering,         \* Sidebar
    openSubmenus,       \* Sidebar: Set<string>
    finalIframeUrl,     \* PageContent
    securityError,      \* PageContent
    isIframeLoading,    \* PageContent
    iframeLoadPending,  \* the mounted <iframe> has not fired its load event yet
    savedAtLoad         \* history: localStorage 'sidebarState' when the page was loaded

vars == << file, search, hash, match, storage, pointerOver, settings, loading, isMobile,
           isMobileMenuOpen, isExpanded, rootStyle, isHovering, openSubmenus,
           finalIframeUrl, securityError, isIframeLoading, iframeLoadPending, savedAtLoad >>

envVars     == << file, search >>
sidebarVars == << isHovering, openSubmenus >>
pageVars    == << match, finalIframeUrl, securityError, isIframeLoading, iframeLoadPending >>

\* AppLayout renders Sidebar and PageContent
Ready == ~loading /\ settings # None

\* AppLayout without the test of settings: the layout is returned whenever
\* loading is over
ScreenNoErrorBranch == IF loading THEN "loading" ELSE "layout"

\* what AppLayout returns: the loading screen, the error screen or the layout
\* with Sidebar and PageContent
Screen ==
    IF loading THEN "loading" ELSE IF settings = None THEN "error" ELSE "layout"

SidebarStateOf(expanded) == IF expanded THEN "expanded" ELSE "collapsed"

\* the persisting effect of AppLayout, run with the given isExpanded
PersistSidebar(store, mobile, expanded) ==
    IF ~mobile THEN [store EXCEPT !.sidebarState = Some(SidebarStateOf(expanded))] ELSE store

\* the initialising effect of AppLayout once the settings are there
InitialExpanded(store, st, mobile) ==
    LET savedState   == store.sidebarState
        initialState == IF savedState # None /\ savedState[1] # ""
                        THEN savedState[1] = "expanded"
                        ELSE st.sidebar.defaultState = "expanded"
    IN  IF ~mobile THEN initialState ELSE FALSE

\* the useState initialiser of openSubmenus
InitialOpenSubmenus(store) ==
    IF store.openSubmenus # None /\ store.openSubmenus[1] # ""
    THEN NewSet(JSONParse(store.openSubmenus[1]))
    ELSE << >>

\* the persisting effect of Sidebar
PersistSubmenus(store, set) == [store EXCEPT !.openSubmenus = Some(JSONStringify(set))]

\* the theme effect of AppLayout
ThemeStyle(st) == { << "--color-" \o k, st.theme[k] >> : k \in DOMAIN st.theme }

IframeRendered(fu, se) == se = None /\ fu # None

\* PageContent renders for hash h and its effect runs when it mounts or when
\* a dependency differs from the previous render
PageCommit(eff) ==
    /\ finalIframeUrl'  = eff.finalIframeUrl
    /\ securityError'   = eff.securityError
    /\ isIframeLoading' = eff.isIframeLoading
    /\ iframeLoadPending' =
         IF ~IframeRendered(finalIframeUrl', securityError') THEN FALSE
         ELSE IF ~IframeRendered(finalIframeUrl, securityError)
                 \/ finalIframeUrl' # finalIframeUrl THEN TRUE
         ELSE iframeLoadPending

PageRenderMatch(st, mount, m) ==
    /\ match' = m
    /\ IF mount \/ EffectDeps(match) # EffectDeps(m)
       THEN PageCommit(PageEffect(IframeUrlOf(m), IframeHashOf(m), st, search))
       ELSE UNCHANGED << finalIframeUrl, securityError, isIframeLoading, iframeLoadPending >>

PageRender(st, mount, h) == PageRenderMatch(st, mount, Match(st.sidebar.navItems, h))

(***************************************************************************)
(* Page load: every component state is fresh, localStorage is kept, the    *)
(* mount effects have run and the fetch of settings.json is in flight.     *)
(***************************************************************************)
InitWith(files, searches, mobiles) ==
    /\ file \in files
    /\ search \in searches
    /\ isMobile \in mobiles
    /\ hash = "#/"
    /\ match = None
    /\ savedAtLoad = None
    /\ storage = PersistSidebar([sidebarState |-> None, openSubmenus |-> None], isMobile, FALSE)
    /\ pointerOver = FALSE
    /\ settings = None
    /\ loading = TRUE
    /\ isMobileMenuOpen = FALSE
    /\ isExpanded = FALSE
    /\ rootStyle = {}
    /\ isHovering = FALSE
    /\ openSubmenus = << >>
    /\ finalIframeUrl = None
    /\ securityError = None
    /\ isIframeLoading = FALSE
    /\ iframeLoadPending = FALSE

Init == InitWith(SettingsFiles, Searches, BOOLEAN)

Reload ==
    /\ savedAtLoad' = storage.sidebarState
    /\ storage' = PersistSidebar(storage, isMobile, FALSE)
    /\ pointerOver' = FALSE
    /\ settings' = None
    /\ loading' = TRUE
    /\ isMobileMenuOpen' = FALSE
    /\ isExpanded' = FALSE
    /\ isHovering' = FALSE
    /\ openSubmenus' = << >>
    /\ match' = None
    /\ finalIframeUrl' = None
    /\ securityError' = None
    /\ isIframeLoading' = FALSE
    /\ iframeLoadPending' = FALSE
    /\ rootStyle' = {}
    /\ UNCHANGED << envVars, hash, isMobile >>

(***************************************************************************)
(* SettingsProvider.fetchSettings                                           *)
(***************************************************************************)
\* response.ok and a JSON body: setSettings(data), setLoading(false); then
\* AppLayout's effects run and Sidebar and PageContent mount
FetchSettingsOk ==
    /\ loading
    /\ settings' = Some(file)
    /\ loading' = FALSE
    /\ isExpanded' = InitialExpanded(storage, file, isMobile)
    /\ rootStyle' = ThemeStyle(file)
    /\ openSubmenus' = InitialOpenSubmenus(storage)
    /\ storage' = PersistSubmenus(
                     IF isExpanded' # isExpanded
                     THEN PersistSidebar(storage, isMobile, isExpanded') ELSE storage,
                     openSubmenus')
    /\ PageRender(file, TRUE, hash)
    /\ UNCHANGED << envVars, hash, pointerOver, isMobile, isMobileMenuOpen, isHovering,
                    savedAtLoad >>

\* the fetch rejects, the status is not OK or the body is not JSON
FetchSettingsFail ==
    /\ loading
    /\ loading' = FALSE
    /\ UNCHANGED << envVars, hash, storage, pointerOver, settings, isMobile, isMobileMenuOpen,
                    isExpanded, rootStyle, sidebarVars, pageVars, savedAtLoad >>

(***************************************************************************)
(* Navigation                                                               *)
(***************************************************************************)
\* the hash becomes r: PageContent re-renders, the mobile menu closes
Navigate(r) ==
    /\ hash' = r
    /\ IF Ready THEN PageRender(settings[1], FALSE, r) ELSE UNCHANGED pageVars
    /\ isMobileMenuOpen' = IF isMobile THEN FALSE ELSE isMobileMenuOpen
    /\ UNCHANGED << envVars, storage, pointerOver, settings, loading, isMobile, isExpanded,
                    rootStyle, sidebarVars, savedAtLoad >>

HashChange == \E r \in Routes : r # hash /\ Navigate(r)

\* the same over the routes of the route-resolution inputs
RouteHashChange == \E r \in RouteRoutes : r # hash /\ Navigate(r)

\* the profile block of the sidebar: window.location.hash = settings.profile.href
ProfileClick ==
    /\ Ready
    /\ ~isMobile \/ isMobileMenuOpen
    /\ Navigate(settings[1].sidebar.profile.href)

\* onLoad of the iframe
IframeLoad ==
    /\ Ready
    /\ IframeRendered(finalIframeUrl, securityError)
    /\ iframeLoadPending
    /\ iframeLoadPending' = FALSE
    /\ isIframeLoading' = FALSE
    /\ UNCHANGED << envVars, hash, storage, pointerOver, settings, loading, isMobile,
                    isMobileMenuOpen, isExpanded, rootStyle, sidebarVars, match,
                    finalIframeUrl, securityError, savedAtLoad >>

(***************************************************************************)
(* AppLayout and Sidebar                                                    *)
(***************************************************************************)
\* the media query flips: the initialising effect runs again when the
\* settings are there, the persisting effect runs with the resulting state
MediaChange ==
    /\ isMobile' = ~isMobile
    /\ isExpanded' = IF Ready THEN InitialExpanded(storage, settings[1], isMobile')
                     ELSE isExpanded
    /\ storage' = PersistSidebar(storage, isMobile', isExpanded')
    /\ isMobileMenuOpen' = IF isMobile' THEN FALSE ELSE isMobileMenuOpen
    /\ pointerOver' = FALSE
    /\ UNCHANGED << envVars, hash, settings, loading, rootStyle, sidebarVars, pageVars,
                    savedAtLoad >>

\* the chevron button of the desktop sidebar (mouse or keyboard)
ToggleSidebar ==
    /\ Ready /\ ~isMobile
    /\ isExpanded' = ~isExpanded
    /\ storage' = PersistSidebar(storage, isMobile, isExpanded')
    /\ UNCHANGED << envVars, hash, pointerOver, settings, loading, isMobile, isMobileMenuOpen,
                    rootStyle, sidebarVars, pageVars, savedAtLoad >>

\* onMouseEnter={() => !isExpanded && setIsHovering(true)}
MouseEnter ==
    /\ Ready /\ ~isMobile /\ ~pointerOver
    /\ pointerOver' = TRUE
    /\ isHovering' = IF ~isExpanded THEN TRUE ELSE isHovering
    /\ UNCHANGED << envVars, hash, storage, settings, loading, isMobile, isMobileMenuOpen,
                    isExpanded, rootStyle, openSubmenus, pageVars, savedAtLoad >>

\* onMouseLeave={() => !isExpanded && setIsHovering(false)}
MouseLeave ==
    /\ Ready /\ ~isMobile /\ pointerOver
    /\ pointerOver' = FALSE
    /\ isHovering' = IF ~isExpanded THEN FALSE ELSE isHovering
    /\ UNCHANGED << envVars, hash, storage, settings, loading, isMobile, isMobileMenuOpen,
                    isExpanded, rootStyle, openSubmenus, pageVars, savedAtLoad >>

\* toggleSubmenu that never closes a submenu
toggleSubmenuAddOnly(prev, path) == SetAdd(prev, path)

toggleSubmenu(prev, path) ==
    IF SetHas(prev, path) THEN SetDelete(prev, path) ELSE SetAdd(prev, path)

\* a submenu header is clicked; the persisting effect of Sidebar follows
ToggleSubmenu ==
    /\ Ready
    /\ ~isMobile \/ isMobileMenuOpen
    /\ \E path \in SubmenuPaths(settings[1].sidebar.navItems) :
          /\ openSubmenus' = toggleSubmenu(openSubmenus, path)
          /\ storage' = PersistSubmenus(storage, openSubmenus')
    /\ UNCHANGED << envVars, hash, pointerOver, settings, loading, isMobile, isMobileMenuOpen,
                    isExpanded, rootStyle, isHovering, pageVars, savedAtLoad >>

\* the menu button of the mobile header
OpenMobileMenu ==
    /\ Ready /\ isMobile /\ ~isMobileMenuOpen
    /\ isMobileMenuOpen' = TRUE
    /\ UNCHANGED << envVars, hash, storage, pointerOver, settings, loading, isMobile,
                    isExpanded, rootStyle, sidebarVars, pageVars, savedAtLoad >>

\* the overlay or the close button of the mobile panel
CloseMobileMenu ==
    /\ Ready /\ isMobile /\ isMobileMenuOpen
    /\ isMobileMenuOpen' = FALSE
    /\ UNCHANGED << envVars, hash, storage, pointerOver, settings, loading, isMobile,
                    isExpanded, rootStyle, sidebarVars, pageVars, savedAtLoad >>

\* Sidebar: text labels and the wide layout are shown
isEffectivelyExpanded == IF isMobile THEN TRUE ELSE (isExpanded \/ (isHovering /\ ~isExpanded))

Next ==
    \/ FetchSettingsOk
    \/ FetchSettingsFail
    \/ Reload
    \/ ProfileClick
    \/ HashChange
    \/ IframeLoad
    \/ MediaChange
    \/ ToggleSidebar
    \/ MouseEnter
    \/ MouseLeave
    \/ ToggleSubmenu
    \/ OpenMobileMenu
    \/ CloseMobileMenu

\* the whole application
Spec == Init /\ [][Next]_vars

(***************************************************************************)
(* The page pipeline on its own: the steps that change the route, the      *)
(* settings or PageContent's state.  The remaining steps of Next leave     *)
(* file, search, hash, settings, loading and PageContent's state           *)
(* unchanged.                                                               *)
(***************************************************************************)
NextPage ==
    \/ FetchSettingsOk
    \/ FetchSettingsFail
    \/ Reload
    \/ ProfileClick
    \/ HashChange
    \/ IframeLoad

SpecPage == Init /\ [][NextPage]_vars

(***************************************************************************)
(* The sidebar on its own: the steps that change the layout state, the     *)
(* Sidebar's state or localStorage; the route stays where it is.           *)
(***************************************************************************)
InitSidebar ==
    InitWith({ SettingsFile(None, d, MainNav) : d \in {"expanded", "collapsed"} }, {""}, BOOLEAN)

NextSidebar ==
    \/ FetchSettingsOk
    \/ FetchSettingsFail
    \/ Reload
    \/ MediaChange
    \/ ToggleSidebar
    \/ MouseEnter
    \/ MouseLeave
    \/ ToggleSubmenu
    \/ OpenMobileMenu
    \/ CloseMobileMenu

SpecSidebar == InitSidebar /\ [][NextSidebar]_vars

(***************************************************************************)
(* Route resolution over all small nav trees: the settings load and the    *)
(* user moves between routes.                                               *)
(***************************************************************************)
InitRoute == InitWith(RouteFiles, {""}, {FALSE})

NextRoute ==
    \/ FetchSettingsOk
    \/ RouteHashChange

SpecRoute == InitRoute /\ [][NextRoute]_vars

(***************************************************************************)
(* Properties                                                               *)
(***************************************************************************)
Rendered == Ready /\ IframeRendered(finalIframeUrl, securityError)

\* the hostname of the src of the rendered iframe
SrcHost == URLParse(finalIframeUrl[1], WindowOrigin).hostname

\* the hostname equals an entry of the allow-list or ends with "." and an entry
HostInAllowList(host, st) ==
    \E i \in 1..Len(AllowedDomains(st)) :
        host = AllowedDomains(st)[i] \/ EndsWith(host, "." \o AllowedDomains(st)[i])

\* a path relative to the dashboard: no scheme and no "//" authority
IsDashboardPath(u) == ~StartsWith(u, HttpsScheme) /\ ~StartsWith(u, "//")

\* C1: whenever an iframe is rendered, the hostname of its src is in the
\* allow-list (equal to an entry or a subdomain of one) or, for an iframeUrl
\* that is a path relative to the dashboard, the dashboard's own host.
C1_OnlyAllowedHosts ==
    Rendered =>
        \/ HostInAllowList(SrcHost, settings[1])
        \/ IsDashboardPath(IframeUrlOf(match)) /\ SrcHost = OriginHost(WindowOrigin)

\* the address-bar parameters
PageParams == URLSearchParams(search)

\* C2: once the settings are stored, every address-bar parameter named like
\* a key of theme, or 'logoUrl', has replaced the file's value in the stored
\* settings (and so in the CSS variable --color-<key> and the logo).
C2_QueryOverridesSettings ==
    Ready =>
        \A i \in 1..Len(PageParams) :
            /\ PageParams[i][1] \in DOMAIN file.theme =>
                  /\ settings[1].theme[PageParams[i][1]] = PageParams[i][2]
                  /\ << "--color-" \o PageParams[i][1], PageParams[i][2] >> \in rootStyle
            /\ PageParams[i][1] = "logoUrl" =>
                  settings[1].sidebar.logoUrl = PageParams[i][2]

\* the query parameters written in the configured iframeUrl
OwnParams(u) ==
    IF After(Before(u, {"#"}), {"?"}) = None THEN << >>
    ELSE URLSearchParams(After(Before(u, {"#"}), {"?"})[1])

\* the query parameters of the src of the rendered iframe
SrcParams == SearchParamsOf(URLParse(finalIframeUrl[1], WindowOrigin))

\* C3: the query parameters of the iframe src are the iframeUrl's own
\* parameters in their order followed by every address-bar parameter in its
\* order, duplicates kept, nothing dropped or overwritten.
C3_QueryPassThrough ==
    Rendered => SrcParams = OwnParams(IframeUrlOf(match)) \o PageParams

\* an embedded link whose own parameter x meets two address-bar parameters x
C3_Witness ==
    /\ Rendered
    /\ Len(OwnParams(IframeUrlOf(match))) > 0
    /\ \E i, j \in 1..Len(PageParams) :
          /\ i # j
          /\ PageParams[i][1] = PageParams[j][1]
          /\ PageParams[i][1] = OwnParams(IframeUrlOf(match))[1][1]

\* the src the link gets when the route is exactly its href
SrcWithoutRouteHash(u) ==
    URLToString(AppendParams(URLParse(u, WindowOrigin), PageParams))

\* C4: when the route is h + '#' + rest for the href h of the matched link,
\* the fragment of the iframe src is rest; when the route is h itself, the
\* src keeps the fragment of the configured iframeUrl; what precedes the
\* fragment does not depend on the route's fragment.
C4_HashPassThrough ==
    (Rendered /\ match # None) =>
        /\ hash = match[1].navLink.href =>
              After(finalIframeUrl[1], {"#"}) = After(IframeUrlOf(match), {"#"})
        /\ StartsWith(hash, match[1].navLink.href \o "#") =>
              After(finalIframeUrl[1], {"#"})
                 = Some(Substring(hash, Len(match[1].navLink.href) + 1))
        /\ Before(finalIframeUrl[1], {"#"})
              = Before(SrcWithoutRouteHash(IframeUrlOf(match)), {"#"})

\* a link whose iframeUrl has a fragment of its own is embedded under a
\* route that carries a non-empty fragment
C4_Witness ==
    /\ Rendered /\ match # None
    /\ After(IframeUrlOf(match), {"#"}) # None
    /\ StartsWith(hash, match[1].navLink.href \o "#")
    /\ Len(hash) > Len(match[1].navLink.href) + 1

\* the step on which the settings arrive on desktop
SettingsArriveOnDesktop == loading /\ ~loading' /\ settings' # None /\ ~isMobile

\* C5: after a reload on desktop with 'sidebarState' stored, once the
\* settings have loaded the sidebar is expanded iff the stored value was
\* 'expanded', and the stored value is still the same.
C5_PreferenceRestored ==
    [][ (SettingsArriveOnDesktop /\ savedAtLoad # None) =>
            /\ isExpanded' = (savedAtLoad[1] = "expanded")
            /\ storage'.sidebarState = savedAtLoad ]_vars

\* C6: on a desktop page load with no 'sidebarState' stored, once the
\* settings have loaded the sidebar is expanded iff defaultState is 'expanded'.
C6_DefaultStateFirstVisit ==
    [][ (SettingsArriveOnDesktop /\ savedAtLoad = None) =>
            (isExpanded' = (file.sidebar.defaultState = "expanded")) ]_vars

Elems(seq) == { seq[i] : i \in 1..Len(seq) }

\* the array stored under 'openSubmenus' ([] when the key is missing)
StoredSubmenus ==
    IF storage.openSubmenus = None THEN << >> ELSE JSONParse(storage.openSubmenus[1])

TwiceToggled(path) == toggleSubmenu(toggleSubmenu(openSubmenus, path), path)

\* C7 as stated: the stored array holds exactly the open submenus, and
\* toggling a path twice gives back the open set and the stored value.
C7_ToggleTwiceRestoresStored ==
    Ready =>
        /\ Elems(StoredSubmenus) = Elems(openSubmenus)
        /\ \A path \in SubmenuPaths(settings[1].sidebar.navItems) :
              /\ Elems(TwiceToggled(path)) = Elems(openSubmenus)
              /\ PersistSubmenus(storage, TwiceToggled(path)).openSubmenus
                    = storage.openSubmenus

\* C7 amended: while the sidebar is mounted the stored array lists exactly
\* the open submenus, each once; toggling a path twice gives back the same
\* open set, stored with the same paths (the order may differ); the stored
\* array is untouched while the sidebar is not mounted and is what the
\* sidebar opens with when it mounts again.
C7_OpenSubmenusPersist ==
    /\ [](Ready => /\ storage.openSubmenus # None
                   /\ StoredSubmenus = openSubmenus
                   /\ Cardinality(Elems(openSubmenus)) = Len(openSubmenus))
    /\ [](Ready => \A path \in SubmenuPaths(settings[1].sidebar.navItems) :
                      /\ Elems(TwiceToggled(path)) = Elems(openSubmenus)
                      /\ Elems(JSONParse(JSONStringify(TwiceToggled(path))))
                            = Elems(StoredSubmenus))
    /\ [][ ~Ready' => storage'.openSubmenus = storage.openSubmenus ]_vars
    /\ [][ (~Ready /\ Ready') => openSubmenus' = StoredSubmenus ]_vars

\* after a reload the sidebar is mounted with two submenus open, the one
\* listed first in the nav tree stored last
C7_Witness ==
    /\ Ready
    /\ savedAtLoad # None
    /\ openSubmenus = << "more", "svc" >>
    /\ storage.openSubmenus = Some("[\"more\",\"svc\"]")

\* C8, for the pointer outside the sidebar: on desktop, while the pointer is
\* not over the sidebar, the sidebar is displayed wide exactly when it is
\* expanded (a collapsed sidebar is displayed narrow) and the hover flag is
\* not set.
C8_NarrowWhenPointerOutside ==
    (Ready /\ ~isMobile /\ ~pointerOver) =>
        /\ isEffectivelyExpanded <=> isExpanded
        /\ ~isHovering

\* the links of a nav tree in nav order: top-level links and submenu children
RECURSIVE AllLinks(_)
AllLinks(navItems) ==
    IF Len(navItems) = 0 THEN << >>
    ELSE (IF Head(navItems).type = "link" THEN << Head(navItems) >>
          ELSE IF Head(navItems).type = "submenu" THEN Head(navItems).children
          ELSE << >>) \o AllLinks(Tail(navItems))

NavLinks == AllLinks(settings[1].sidebar.navItems)

\* the route handed to findNavItemByHref
LookupHref ==
    IF hash = "#/" THEN findDefaultHref(settings[1].sidebar.navItems) ELSE hash

\* the links whose href is the route or is followed by '#' in the route
Candidates == { i \in 1..Len(NavLinks) :
                   \/ LookupHref = NavLinks[i].href
                   \/ StartsWith(LookupHref, NavLinks[i].href \o "#") }

\* the candidate with the longest href, the first in nav order among equals
BestCandidate ==
    CHOOSE i \in Candidates :
        \A j \in Candidates :
            \/ Len(NavLinks[j].href) < Len(NavLinks[i].href)
            \/ Len(NavLinks[j].href) = Len(NavLinks[i].href) /\ i <= j

\* C9: the match is a link whose href is the route or is followed by '#' in
\* the route, the one with the longest href and the first in nav order among
\* equals, with iframeHash the route less that href; there is no match when
\* no link qualifies.
C9_RouteResolution ==
    Ready =>
        IF Candidates = {} THEN match = None
        ELSE match = Some([ navLink    |-> NavLinks[BestCandidate],
                            iframeHash |-> Substring(LookupHref,
                                                     Len(NavLinks[BestCandidate].href)) ])

\* a route under which links of two href lengths qualify, two of them with
\* the longest href, and a fragment is left over for the iframe
C9_Witness ==
    /\ Ready /\ match # None
    /\ match[1].iframeHash # ""
    /\ \E i, j, k \in Candidates :
          /\ Len(NavLinks[i].href) < Len(NavLinks[j].href)
          /\ j # k /\ NavLinks[j].href = NavLinks[k].href /\ NavLinks[j] # NavLinks[k]

\* C10: under the route '#/' the active link is the first link of the nav
\* tree in nav order (a top-level link or the first child of a submenu with
\* children), its content is what is shown, and with no link at all nothing
\* is active, no iframe is rendered and the welcome content is shown.
C10_DefaultRoute ==
    (Ready /\ hash = "#/") =>
        IF Len(NavLinks) = 0
        THEN match = None /\ finalIframeUrl = None /\ securityError = None
        ELSE /\ match = Some([navLink |-> NavLinks[1], iframeHash |-> ""])
             /\ finalIframeUrl
                  = PageEffect(NavLinks[1].iframeUrl, "", settings[1], search).finalIframeUrl
             /\ securityError
                  = PageEffect(NavLinks[1].iframeUrl, "", settings[1], search).securityError

\* the nav tree begins with an empty submenu, which is skipped, and the
\* default link is the first child of the submenu after it
C10_Witness ==
    /\ Ready /\ hash = "#/" /\ match # None
    /\ Len(settings[1].sidebar.navItems) >= 2
    /\ settings[1].sidebar.navItems[1].type = "submenu"
    /\ Len(settings[1].sidebar.navItems[1].children) = 0
    /\ settings[1].sidebar.navItems[2].type = "submenu"
    /\ Len(settings[1].sidebar.navItems[2].children) = 2
    /\ match[1].navLink = settings[1].sidebar.navItems[2].children[1]
    /\ settings[1].sidebar.navItems[2].children[2] # match[1].navLink
    /\ IframeRendered(finalIframeUrl, securityError)

(***************************************************************************)
(* One page load from the fetch of settings.json onwards, on desktop: the  *)
(* fetch settles one way or the other, the user moves between routes and   *)
(* a mounted iframe fires its load event.  Two links of the nav tree have  *)
(* iframeUrls that differ as text and compose to the same src.             *)
(***************************************************************************)
SessionNav ==
    << Link("#/a", "/page"),
       Link("#/b", "./page"),
       Link("#/home", "https://ok.io/a#top"),
       Link("#/evil", "https://evilok.io/"),
       Link("#/bad", "https://"),
       Link("#/none", "") >>

SessionFiles == { SettingsFile(a, "collapsed", SessionNav) : a \in AllowLists }

SessionSearches == { "", "?x=2" }

SessionRoutes ==
    { "#/", "#/a", "#/b", "#/home", "#/home#top", "#/evil", "#/bad", "#/none", "#/nowhere" }

InitSession == InitWith(SessionFiles, SessionSearches, {FALSE})

SessionHashChange == \E r \in SessionRoutes : r # hash /\ Navigate(r)

NextSession ==
    \/ FetchSettingsOk
    \/ FetchSettingsFail
    \/ SessionHashChange
    \/ ProfileClick
    \/ IframeLoad

\* The promise of fetch settles: while the fetch is in flight the step to
\* its failure outcome stays enabled, and it is disabled by either outcome,
\* so weak fairness on it excludes exactly the behaviours in which the fetch
\* never settles.  A mounted iframe that has not loaded yet fires its load
\* event.
SpecSession ==
    /\ InitSession
    /\ [][NextSession]_vars
    /\ WF_vars(FetchSettingsFail)
    /\ WF_vars(IframeLoad)

\* nothing of Sidebar or PageContent is there: their state is as it is
\* before they mount
Unmounted ==
    /\ match = None /\ finalIframeUrl = None /\ securityError = None
    /\ ~isIframeLoading /\ ~iframeLoadPending
    /\ openSubmenus = << >> /\ ~isHovering

\* C11: the fetch ends the loading state and loading never becomes true
\* again; when the fetch rejects, answers with a non-OK status or has a body
\* that is not JSON, settings stays null and the error screen is shown from
\* then on; the layout with Sidebar and PageContent is shown exactly when
\* loading is false and settings is non-null, and Sidebar and PageContent
\* hold or change state in no other state.
C11_SettingsLoadOutcome ==
    /\ <>(~loading)
    /\ [][ ~loading => ~loading' ]_vars
    /\ [][ FetchSettingsFail => (settings' = None /\ Screen' = "error") ]_vars
    /\ [][ (~loading /\ settings = None) => (settings' = None /\ Screen' = "error") ]_vars
    /\ [](Screen = "layout" <=> (~loading /\ settings # None))
    /\ [](Screen # "layout" => Unmounted)
    /\ [][ (pageVars' # pageVars \/ sidebarVars' # sidebarVars) => Screen' = "layout" ]_vars

\* the fetch has failed, the error screen is shown and the user has moved
\* to the route of a link that would be embedded
C11_Witness ==
    /\ Screen = "error"
    /\ hash = "#/home"
    /\ Unmounted

\* new URL(u, window.location.origin) throws
Unparsable(u) == ~URLParse(u, WindowOrigin).ok

\* u is not written as a path of the dashboard ("/..." or "./...")
IsAbsoluteUrl(u) == ~StartsWith(u, "/") /\ ~StartsWith(u, "./")

\* the iframeUrl u must not be embedded under the settings st
BlockedUrl(u, st) ==
    /\ u # ""
    /\ \/ Unparsable(u)
       \/ IsAbsoluteUrl(u) /\ ~HostInAllowList(URLParse(u, WindowOrigin).hostname, st)

AllowedUrl(u, st) == u # "" /\ ~BlockedUrl(u, st)

\* PageContent returns the 'Content Blocked' message
ContentBlocked == Ready /\ securityError # None

\* PageContent returns the welcome content
WelcomeShown == Ready /\ securityError = None /\ finalIframeUrl = None

\* C12: while the active link's iframeUrl does not parse or is absolute with
\* a hostname outside the allow-list, no iframe is rendered, 'Content
\* Blocked' is shown and the loading indicator is off; a route change from
\* there to a link with an allowed iframeUrl clears the error and renders
\* the iframe of that link, which starts loading, and a route change to a
\* route without iframeUrl clears the error and shows the welcome content
\* with the loading indicator off.
C12_BlockedAndRecovery ==
    /\ []((Ready /\ BlockedUrl(IframeUrlOf(match), settings[1])) =>
             /\ ContentBlocked
             /\ finalIframeUrl = None
             /\ ~isIframeLoading)
    /\ [][ (ContentBlocked /\ hash' # hash) =>
             /\ AllowedUrl(IframeUrlOf(match'), settings[1]) =>
                   /\ Rendered'
                   /\ Before(finalIframeUrl'[1], {"#"})
                         = Before(SrcWithoutRouteHash(IframeUrlOf(match')), {"#"})
                   /\ isIframeLoading' /\ iframeLoadPending'
             /\ IframeUrlOf(match') = "" =>
                   WelcomeShown' /\ ~isIframeLoading' ]_vars

\* a link is blocked by a non-empty allow-list: its hostname ends with an
\* entry of the list without being a subdomain of it
C12_Witness ==
    /\ ContentBlocked
    /\ securityError = Some(NotAllowedError)
    /\ finalIframeUrl = None /\ ~isIframeLoading
    /\ \E i \in 1..Len(AllowedDomains(settings[1])) :
          EndsWith(URLParse(IframeUrlOf(match), WindowOrigin).hostname,
                   AllowedDomains(settings[1])[i])

\* the loading overlay covers the rendered iframe, which is transparent
OverlayShown == Rendered /\ isIframeLoading

\* C13: whenever the route is that of an embeddable link and the loading
\* overlay is shown, then, every mounted iframe firing its load event, the
\* overlay is eventually hidden (isIframeLoading false) unless the user
\* leaves the route; this includes arriving from a link whose iframeUrl is
\* written differently and composes to the same src.
C13_LoadingEventuallyClears ==
    \A r \in SessionRoutes :
        (OverlayShown /\ hash = r) ~> (~isIframeLoading \/ hash # r)
====
